---- MODULE Spec2Model ----
(***************************************************************************)
(* State-machine model of the QuranReader component (src/QuranReader.tsx): *)
(* the React state of the component, the localStorage item                 *)
(* 'quran_bookmarks', the outstanding fetches, and one action per effect,  *)
(* event handler and fetch continuation.                                   *)
(***************************************************************************)
EXTENDS Integers, Sequences, FiniteSets, TLC

\* ------------------------------------------------------------------ bounds
\* loadSurah requests issued in one run of the component.
MaxRequests == 2
\* Bookmarks held by the persisted item when the component mounts.
MaxSaved == 1

\* ------------------------------------------------------- remote provider
\* The two display languages the surahName snapshot is taken in.
Languages == {"ar", "en"}

\* GET /v1/surah: the catalogue (a two-surah provider; names are sequences
\* of characters so that includes() and toLowerCase() can be computed).
Catalog ==
  << [number |-> 1, name |-> <<"a", "f">>, englishName |-> <<"F", "a">>,
      numberOfAyahs |-> 1],
     [number |-> 2, name |-> <<"a", "b">>, englishName |-> <<"B", "a">>,
      numberOfAyahs |-> 2] >>

\* useState<Surah | null>(null): the value standing for null.
NoSurah == [number |-> 0, name |-> <<>>, englishName |-> <<>>, numberOfAyahs |-> 0]

Digit == <<"1", "2", "3", "4", "5", "6", "7", "8", "9">>

AyahText(s, i) == <<"t", Digit[s], Digit[i]>>

RECURSIVE AyahsBefore(_)
AyahsBefore(s) ==
  IF s <= 1 THEN 0 ELSE Catalog[s - 1].numberOfAyahs + AyahsBefore(s - 1)

\* GET /v1/surah/{number}: data.data.ayahs of the response.
FetchAyahs(surah) ==
  [i \in 1..surah.numberOfAyahs |->
     [number |-> AyahsBefore(surah.number) + i,
      numberInSurah |-> i,
      text |-> AyahText(surah.number, i)]]

\* ------------------------------------------------------------ strings
ToLowerChar(c) ==
  CASE c = "A" -> "a" [] c = "B" -> "b" [] c = "F" -> "f" [] OTHER -> c

toLowerCase(str) == [i \in 1..Len(str) |-> ToLowerChar(str[i])]

\* String.prototype.includes: sub occurs in str as a contiguous substring.
includes(str, sub) ==
  \E k \in 0..(Len(str) - Len(sub)) :
    \A j \in 1..Len(sub) : str[k + j] = sub[j]

\* The texts typed into the search box.
SearchTerms == {<<>>, <<"b">>}

\* ------------------------------------------------------------ bookmarks
SameKey(b, surahNumber, ayahNumber) ==
  b.surahNumber = surahNumber /\ b.ayahNumber = ayahNumber

\* bookmarks.some(b => b.surahNumber === ... && b.ayahNumber === ...)
HasKey(B, surahNumber, ayahNumber) ==
  \E i \in 1..Len(B) : SameKey(B[i], surahNumber, ayahNumber)

\* prev.filter(b => !(b.surahNumber === ... && b.ayahNumber === ...))
Remove(B, surahNumber, ayahNumber) ==
  SelectSeq(B, LAMBDA b : ~SameKey(b, surahNumber, ayahNumber))

\* The record toggleAyahBookmark appends (lines 75-80).
NewBookmark(surah, ayah, l) ==
  [surahNumber |-> surah.number,
   surahName   |-> IF l = "ar" THEN surah.name ELSE surah.englishName,
   ayahNumber  |-> ayah.numberInSurah,
   text        |-> ayah.text]

ToggleAlwaysAppends(B, surah, ayah, l) == Append(B, NewBookmark(surah, ayah, l))

ToggleRemovesLast(B, surah, ayah, l) ==
  IF HasKey(B, surah.number, ayah.numberInSurah)
    THEN SubSeq(B, 1, Len(B) - 1)
    ELSE Append(B, NewBookmark(surah, ayah, l))

\* The state update of toggleAyahBookmark (lines 71-81).
Toggle(B, surah, ayah, l) ==
  IF HasKey(B, surah.number, ayah.numberInSurah)
    THEN Remove(B, surah.number, ayah.numberInSurah)
    ELSE Append(B, NewBookmark(surah, ayah, l))

Unique(B) ==
  \A i, j \in 1..Len(B) :
    SameKey(B[i], B[j].surahNumber, B[j].ayahNumber) => i = j

\* ------------------------------------------------------------ JSON text
\* A JSON text is a sequence of tokens.
LB == [p |-> "["]
RB == [p |-> "]"]
LC == [p |-> "{"]
RC == [p |-> "}"]
Comma == [p |-> ","]
Key(k) == [key |-> k]
Num(n) == [num |-> n]
Str(s) == [str |-> s]

ObjectText(b) ==
  << LC, Key("surahNumber"), Num(b.surahNumber), Comma,
         Key("surahName"), Str(b.surahName), Comma,
         Key("ayahNumber"), Num(b.ayahNumber), Comma,
         Key("text"), Str(b.text), RC >>

ObjectLen ==
  Len(ObjectText([surahNumber |-> 0, surahName |-> <<>>,
                  ayahNumber |-> 0, text |-> <<>>]))

RECURSIVE ElementsText(_)
ElementsText(B) ==
  IF B = <<>> THEN <<>>
  ELSE IF Len(B) = 1 THEN ObjectText(B[1])
  ELSE ObjectText(B[1]) \o <<Comma>> \o ElementsText(Tail(B))

\* JSON.stringify(bookmarks)
Stringify(B) == <<LB>> \o ElementsText(B) \o <<RB>>

\* Whether the tokens are a bookmark object, and the record they denote.
IsObjectText(t) ==
  /\ Len(t) = ObjectLen
  /\ t[1] = LC /\ t[ObjectLen] = RC
  /\ t[2] = Key("surahNumber") /\ DOMAIN t[3] = {"num"}
  /\ t[5] = Key("surahName")   /\ DOMAIN t[6] = {"str"}
  /\ t[8] = Key("ayahNumber")  /\ DOMAIN t[9] = {"num"}
  /\ t[11] = Key("text")       /\ DOMAIN t[12] = {"str"}
  /\ t[4] = Comma /\ t[7] = Comma /\ t[10] = Comma

ObjectValue(t) ==
  [surahNumber |-> t[3].num, surahName |-> t[6].str,
   ayahNumber |-> t[9].num, text |-> t[12].str]

SyntaxError == [ok |-> FALSE, value |-> <<>>]

RECURSIVE ParseElements(_)
ParseElements(t) ==
  IF Len(t) < ObjectLen \/ ~IsObjectText(SubSeq(t, 1, ObjectLen)) THEN SyntaxError
  ELSE IF Len(t) = ObjectLen
    THEN [ok |-> TRUE, value |-> <<ObjectValue(SubSeq(t, 1, ObjectLen))>>]
  ELSE IF Len(t) = ObjectLen + 1 \/ t[ObjectLen + 1] # Comma THEN SyntaxError
  ELSE LET rest == ParseElements(SubSeq(t, ObjectLen + 2, Len(t)))
       IN  IF rest.ok
             THEN [ok |-> TRUE,
                   value |-> <<ObjectValue(SubSeq(t, 1, ObjectLen))>> \o rest.value]
             ELSE SyntaxError

\* JSON.parse(saved): the array the text denotes, or a SyntaxError thrown.
Parse(t) ==
  IF Len(t) < 2 \/ t[1] # LB \/ t[Len(t)] # RB THEN SyntaxError
  ELSE IF Len(t) = 2 THEN [ok |-> TRUE, value |-> <<>>]
  ELSE ParseElements(SubSeq(t, 2, Len(t) - 1))

\* localStorage.getItem('quran_bookmarks'): null, or the stored text.
NoItem == [present |-> FALSE, text |-> <<>>]
Item(t) == [present |-> TRUE, text |-> t]

\* A stored text that is not JSON.
NotJson == <<[word |-> "not-json"]>>

\* ------------------------------------------------------------- state
VARIABLES
  pc,                \* "mount", "loaded", "rerender", "ready" or "crashed"
  lang,              \* the lang prop
  surahs,            \* useState<Surah[]>([])
  selectedSurah,     \* useState<Surah | null>(null)
  ayahs,             \* useState<Ayah[]>([])
  loading,           \* useState(true)
  searchTerm,        \* useState("")
  bookmarks,         \* useState<SavedBookmark[]>([])
  showBookmarksOnly, \* useState(false)
  storage,           \* localStorage item 'quran_bookmarks'
  queued,            \* the setBookmarks update the mount effect scheduled
  catalogReq,        \* the fetchSurahs request: "none", "pending", "done", "failed"
  pending,           \* outstanding loadSurah requests
  issued,            \* number of loadSurah requests issued so far
  lastOp,            \* history: the step taken last
  tog,               \* history: consecutive toggles of one key, and the collection before them
  flagBefore,        \* history: showBookmarksOnly just before the Detail view was entered
  prevLoaded,        \* history: the surah whose items the last response replaced
  mutated            \* history: a bookmark was added or removed since the mount

vars == <<pc, lang, surahs, selectedSurah, ayahs, loading, searchTerm, bookmarks,
          showBookmarksOnly, storage, queued, catalogReq, pending, issued,
          lastOp, tog, flagBefore, prevLoaded, mutated>>

Op(name, s, n) == [op |-> name, surah |-> s, id |-> n]

\* The number of the surah whose items A holds, 0 when A is empty.
LoadedSurah(A) ==
  IF A = <<>> THEN 0
  ELSE CHOOSE s \in DOMAIN Catalog : FetchAyahs(Catalog[s]) = A

NoTog == [n |-> 0, surah |-> 0, ayah |-> 0, base |-> <<>>]

\* Every record a toggle can have written, in either language.
BookmarkRecords ==
  UNION { { NewBookmark(Catalog[s], FetchAyahs(Catalog[s])[i], l) :
              i \in DOMAIN FetchAyahs(Catalog[s]), l \in Languages } :
          s \in DOMAIN Catalog }

\* The collections an earlier run of the component can have left behind.
SavedLists ==
  { B \in UNION { [1..n -> BookmarkRecords] : n \in 0..MaxSaved } : Unique(B) }

\* What the store holds when the component mounts: nothing, a text that is
\* not JSON, or the text an earlier run wrote.
InitialItems == {NoItem, Item(NotJson)} \cup { Item(Stringify(B)) : B \in SavedLists }

\* The state after the first render, before the mount effects have run.
Init ==
  /\ pc = "mount"
  /\ lang \in Languages
  /\ surahs = <<>>
  /\ selectedSurah = NoSurah
  /\ ayahs = <<>>
  /\ loading = TRUE
  /\ searchTerm = <<>>
  /\ bookmarks = <<>>
  /\ showBookmarksOnly = FALSE
  /\ storage \in InitialItems
  /\ queued = [set |-> FALSE, value |-> <<>>]
  /\ catalogReq = "none"
  /\ pending = {}
  /\ issued = 0
  /\ lastOp = Op("init", 0, 0)
  /\ tog = NoTog
  /\ flagBefore = FALSE
  /\ prevLoaded = 0
  /\ mutated = FALSE

\* ------------------------------------------------------------ effects
PersistEffectSkipsEmpty(old, B) == IF B = <<>> THEN old ELSE Item(Stringify(B))

\* useEffect(() => localStorage.setItem('quran_bookmarks',
\* JSON.stringify(bookmarks)), [bookmarks]): the item it leaves.
PersistEffect(old, B) == Item(Stringify(B))

\* The mount effect (lines 31-37): fetchSurahs() runs up to its first await,
\* the item is read and, when truthy, parsed; the parsed array is handed to
\* setBookmarks, which takes effect at the next render. A SyntaxError thrown
\* by JSON.parse is not caught: the component is torn down. Whether the
\* persist effect of the same commit still runs after the throw depends on
\* the React version, so either outcome is allowed.
MountLoadEffect ==
  /\ pc = "mount"
  /\ catalogReq' = "pending"
  /\ LET saved == storage
         truthy == saved.present /\ saved.text # <<>>
         parsed == Parse(saved.text)
     IN  IF truthy /\ ~parsed.ok
           THEN /\ pc' = "crashed"
                /\ queued' = queued
                /\ storage' \in {storage, PersistEffect(storage, bookmarks)}
           ELSE /\ pc' = "loaded"
                /\ queued' = IF truthy THEN [set |-> TRUE, value |-> parsed.value]
                                       ELSE queued
                /\ storage' = storage
  /\ lastOp' = Op("mountLoad", 0, 0)
  /\ UNCHANGED <<lang, surahs, selectedSurah, ayahs, loading, searchTerm, bookmarks,
                 showBookmarksOnly, pending, issued, tog, flagBefore, prevLoaded,
                 mutated>>

\* The persist effect of the mount commit (lines 39-41): it sees the
\* bookmarks of the first render, the empty array.
MountPersistEffect ==
  /\ pc = "loaded"
  /\ storage' = PersistEffect(storage, bookmarks)
  /\ pc' = IF queued.set THEN "rerender" ELSE "ready"
  /\ lastOp' = Op("mountPersist", 0, 0)
  /\ UNCHANGED <<lang, surahs, selectedSurah, ayahs, loading, searchTerm, bookmarks,
                 showBookmarksOnly, queued, catalogReq, pending, issued, tog,
                 flagBefore, prevLoaded, mutated>>

\* The render the mount effect's setBookmarks asked for, and the persist
\* effect that follows it because bookmarks changed.
Rerender ==
  /\ pc = "rerender"
  /\ bookmarks' = queued.value
  /\ queued' = [set |-> FALSE, value |-> <<>>]
  /\ storage' = PersistEffect(storage, bookmarks')
  /\ pc' = "ready"
  /\ lastOp' = Op("rerender", 0, 0)
  /\ UNCHANGED <<lang, surahs, selectedSurah, ayahs, loading, searchTerm,
                 showBookmarksOnly, catalogReq, pending, issued, tog, flagBefore,
                 prevLoaded, mutated>>

\* ------------------------------------------------------------ fetches
\* fetchSurahs after its awaits (lines 46-48).
FetchSurahsOk ==
  /\ pc = "ready"
  /\ catalogReq = "pending"
  /\ catalogReq' = "done"
  /\ surahs' = Catalog
  /\ loading' = FALSE
  /\ lastOp' = Op("catalogOk", 0, 0)
  /\ tog' = NoTog
  /\ UNCHANGED <<pc, lang, selectedSurah, ayahs, searchTerm, bookmarks,
                 showBookmarksOnly, storage, queued, pending, issued, flagBefore, prevLoaded,
                 mutated>>

\* fetchSurahs when fetch or res.json() throws (lines 49-51).
FetchSurahsFail ==
  /\ pc = "ready"
  /\ catalogReq = "pending"
  /\ catalogReq' = "failed"
  /\ lastOp' = Op("catalogFail", 0, 0)
  /\ tog' = NoTog
  /\ UNCHANGED <<pc, lang, surahs, selectedSurah, ayahs, loading, searchTerm,
                 bookmarks, showBookmarksOnly, storage, queued, pending, issued,
                 flagBefore, prevLoaded, mutated>>

\* loadSurah up to its first await (lines 55-57): the request leaves.
LoadSurahStart(surah) ==
  /\ issued < MaxRequests
  /\ loading' = TRUE
  /\ issued' = issued + 1
  /\ pending' = pending \cup {[id |-> issued + 1, surah |-> surah]}

\* const filteredSurahs = surahs.filter(...) (lines 100-103)
filteredSurahs ==
  SelectSeq(surahs, LAMBDA s :
    \/ includes(s.name, searchTerm)
    \/ includes(toLowerCase(s.englishName), toLowerCase(searchTerm)))

\* A surah button of the catalogue list (line 236).
ClickSurah(i) ==
  /\ pc = "ready"
  /\ selectedSurah = NoSurah
  /\ ~showBookmarksOnly
  /\ i \in DOMAIN filteredSurahs
  /\ LoadSurahStart(filteredSurahs[i])
  /\ lastOp' = Op("loadStart", filteredSurahs[i].number, issued + 1)
  /\ tog' = NoTog
  /\ UNCHANGED <<pc, lang, surahs, selectedSurah, ayahs, searchTerm, bookmarks,
                 showBookmarksOnly, storage, queued, catalogReq, flagBefore, prevLoaded, mutated>>

\* goToBookmarkedSurah (lines 93-98), from an entry of the bookmarks list
\* (line 217): nothing happens when the catalogue does not hold the surah.
GoToBookmarkedSurah(i) ==
  /\ pc = "ready"
  /\ selectedSurah = NoSurah
  /\ showBookmarksOnly
  /\ i \in DOMAIN bookmarks
  /\ LET surahNum == bookmarks[i].surahNumber
         found == SelectSeq(surahs, LAMBDA s : s.number = surahNum)
     IN  IF found # <<>>
           THEN /\ LoadSurahStart(found[1])
                /\ lastOp' = Op("loadStart", surahNum, issued + 1)
           ELSE /\ UNCHANGED <<loading, issued, pending>>
                /\ lastOp' = Op("goToMissing", surahNum, 0)
  /\ tog' = NoTog
  /\ UNCHANGED <<pc, lang, surahs, selectedSurah, ayahs, searchTerm, bookmarks,
                 showBookmarksOnly, storage, queued, catalogReq, flagBefore, prevLoaded, mutated>>

LoadSurahOkLatestOnly(req) ==
  /\ pc = "ready"
  /\ req \in pending
  /\ pending' = pending \ {req}
  /\ IF req.id = issued
       THEN /\ ayahs' = FetchAyahs(req.surah)
            /\ selectedSurah' = req.surah
            /\ loading' = FALSE
            /\ showBookmarksOnly' = FALSE
       ELSE UNCHANGED <<ayahs, selectedSurah, loading, showBookmarksOnly>>
  /\ flagBefore' = IF selectedSurah = NoSurah /\ selectedSurah' # NoSurah
                     THEN showBookmarksOnly ELSE flagBefore
  /\ prevLoaded' = IF ayahs' = ayahs THEN prevLoaded ELSE LoadedSurah(ayahs)
  /\ lastOp' = Op("loadOk", req.surah.number, req.id)
  /\ tog' = NoTog
  /\ UNCHANGED <<pc, lang, surahs, searchTerm, bookmarks, storage, queued,
                 catalogReq, issued, mutated>>

LoadSurahOkKeepsItems(req) ==
  /\ pc = "ready"
  /\ req \in pending
  /\ pending' = pending \ {req}
  /\ ayahs' = IF ayahs = <<>> THEN FetchAyahs(req.surah) ELSE ayahs
  /\ selectedSurah' = req.surah
  /\ loading' = FALSE
  /\ showBookmarksOnly' = FALSE
  /\ flagBefore' = IF selectedSurah = NoSurah THEN showBookmarksOnly ELSE flagBefore
  /\ prevLoaded' = LoadedSurah(ayahs)
  /\ lastOp' = Op("loadOk", req.surah.number, req.id)
  /\ tog' = NoTog
  /\ UNCHANGED <<pc, lang, surahs, searchTerm, bookmarks, storage, queued,
                 catalogReq, issued, mutated>>

LoadSurahOkResetsBookmarks(req) ==
  /\ pc = "ready"
  /\ req \in pending
  /\ pending' = pending \ {req}
  /\ ayahs' = FetchAyahs(req.surah)
  /\ selectedSurah' = req.surah
  /\ loading' = FALSE
  /\ showBookmarksOnly' = FALSE
  /\ bookmarks' = <<>>
  /\ storage' = PersistEffect(storage, bookmarks')
  /\ flagBefore' = IF selectedSurah = NoSurah THEN showBookmarksOnly ELSE flagBefore
  /\ prevLoaded' = LoadedSurah(ayahs)
  /\ lastOp' = Op("loadOk", req.surah.number, req.id)
  /\ tog' = NoTog
  /\ UNCHANGED <<pc, lang, surahs, searchTerm, queued, catalogReq, issued, mutated>>

\* loadSurah after its awaits (lines 58-62): one render applies the four
\* state updates together.
LoadSurahOk(req) ==
  /\ pc = "ready"
  /\ req \in pending
  /\ pending' = pending \ {req}
  /\ ayahs' = FetchAyahs(req.surah)
  /\ selectedSurah' = req.surah
  /\ loading' = FALSE
  /\ showBookmarksOnly' = FALSE
  /\ flagBefore' = IF selectedSurah = NoSurah THEN showBookmarksOnly ELSE flagBefore
  /\ prevLoaded' = LoadedSurah(ayahs)
  /\ lastOp' = Op("loadOk", req.surah.number, req.id)
  /\ tog' = NoTog
  /\ UNCHANGED <<pc, lang, surahs, searchTerm, bookmarks, storage, queued,
                 catalogReq, issued, mutated>>

LoadSurahFailClearsLoading(req) ==
  /\ pc = "ready"
  /\ req \in pending
  /\ pending' = pending \ {req}
  /\ loading' = FALSE
  /\ lastOp' = Op("loadFail", req.surah.number, req.id)
  /\ tog' = NoTog
  /\ UNCHANGED <<pc, lang, surahs, selectedSurah, ayahs, searchTerm,
                 bookmarks, showBookmarksOnly, storage, queued, catalogReq, issued,
                 flagBefore, prevLoaded, mutated>>

\* loadSurah when fetch or res.json() throws (lines 63-65).
LoadSurahFail(req) ==
  /\ pc = "ready"
  /\ req \in pending
  /\ pending' = pending \ {req}
  /\ lastOp' = Op("loadFail", req.surah.number, req.id)
  /\ tog' = NoTog
  /\ UNCHANGED <<pc, lang, surahs, selectedSurah, ayahs, loading, searchTerm,
                 bookmarks, showBookmarksOnly, storage, queued, catalogReq, issued,
                 flagBefore, prevLoaded, mutated>>

\* ------------------------------------------------------------ handlers
\* The bookmark button of an ayah card (line 144); the cards are rendered
\* only in the Detail view when loading is false (lines 107, 130-133). The
\* click's render and the persist effect that follows it are part of the step.
ToggleAyahBookmark(i) ==
  /\ pc = "ready"
  /\ selectedSurah # NoSurah
  /\ ~loading
  /\ i \in DOMAIN ayahs
  /\ bookmarks' = Toggle(bookmarks, selectedSurah, ayahs[i], lang)
  /\ storage' = PersistEffect(storage, bookmarks')
  /\ mutated' = TRUE
  /\ lastOp' = Op("toggle", selectedSurah.number, ayahs[i].numberInSurah)
  /\ tog' = IF tog.n = 1 /\ tog.surah = selectedSurah.number
                         /\ tog.ayah = ayahs[i].numberInSurah
              THEN [tog EXCEPT !.n = 2]
              ELSE [n |-> 1, surah |-> selectedSurah.number,
                    ayah |-> ayahs[i].numberInSurah, base |-> bookmarks]
  /\ UNCHANGED <<pc, lang, surahs, selectedSurah, ayahs, loading, searchTerm,
                 showBookmarksOnly, queued, catalogReq, pending, issued, flagBefore, prevLoaded>>

\* The trash button of an entry of the bookmarks list (line 222), calling
\* deleteBookmark (lines 89-91).
DeleteBookmark(i) ==
  /\ pc = "ready"
  /\ selectedSurah = NoSurah
  /\ showBookmarksOnly
  /\ i \in DOMAIN bookmarks
  /\ bookmarks' = Remove(bookmarks, bookmarks[i].surahNumber, bookmarks[i].ayahNumber)
  /\ storage' = PersistEffect(storage, bookmarks')
  /\ mutated' = TRUE
  /\ lastOp' = Op("delete", bookmarks[i].surahNumber, bookmarks[i].ayahNumber)
  /\ tog' = NoTog
  /\ UNCHANGED <<pc, lang, surahs, selectedSurah, ayahs, loading, searchTerm,
                 showBookmarksOnly, queued, catalogReq, pending, issued, flagBefore, prevLoaded>>

BackResetsFlag ==
  /\ pc = "ready"
  /\ selectedSurah # NoSurah
  /\ selectedSurah' = NoSurah
  /\ showBookmarksOnly' = flagBefore
  /\ lastOp' = Op("back", selectedSurah.number, 0)
  /\ tog' = NoTog
  /\ UNCHANGED <<pc, lang, surahs, ayahs, loading, searchTerm, bookmarks,
                 storage, queued, catalogReq, pending, issued,
                 flagBefore, prevLoaded, mutated>>

\* The back button of the Detail view (line 111).
Back ==
  /\ pc = "ready"
  /\ selectedSurah # NoSurah
  /\ selectedSurah' = NoSurah
  /\ lastOp' = Op("back", selectedSurah.number, 0)
  /\ tog' = NoTog
  /\ UNCHANGED <<pc, lang, surahs, ayahs, loading, searchTerm, bookmarks,
                 showBookmarksOnly, storage, queued, catalogReq, pending, issued,
                 flagBefore, prevLoaded, mutated>>

\* The two tab buttons of the catalogue view (lines 171, 177).
SetShowBookmarksOnly(b) ==
  /\ pc = "ready"
  /\ selectedSurah = NoSurah
  /\ showBookmarksOnly' = b
  /\ lastOp' = Op("setFlag", 0, 0)
  /\ tog' = NoTog
  /\ UNCHANGED <<pc, lang, surahs, selectedSurah, ayahs, loading, searchTerm,
                 bookmarks, storage, queued, catalogReq, pending, issued,
                 flagBefore, prevLoaded, mutated>>

\* The search box (line 198), rendered when the flag is off (line 190).
SetSearchTerm(t) ==
  /\ pc = "ready"
  /\ selectedSurah = NoSurah
  /\ ~showBookmarksOnly
  /\ searchTerm' = t
  /\ lastOp' = Op("setSearch", 0, 0)
  /\ tog' = NoTog
  /\ UNCHANGED <<pc, lang, surahs, selectedSurah, ayahs, loading, bookmarks,
                 showBookmarksOnly, storage, queued, catalogReq, pending, issued,
                 flagBefore, prevLoaded, mutated>>

\* ------------------------------------------------------ specification
Next ==
  \/ MountLoadEffect
  \/ MountPersistEffect
  \/ Rerender
  \/ FetchSurahsOk
  \/ FetchSurahsFail
  \/ \E i \in 1..Len(Catalog) : ClickSurah(i)
  \/ \E i \in 1..Cardinality(BookmarkRecords) : GoToBookmarkedSurah(i)
  \/ \E req \in pending : LoadSurahOk(req)
  \/ \E req \in pending : LoadSurahFail(req)
  \/ \E i \in 1..Cardinality(BookmarkRecords) : ToggleAyahBookmark(i)
  \/ \E i \in 1..Cardinality(BookmarkRecords) : DeleteBookmark(i)
  \/ Back
  \/ \E b \in BOOLEAN : SetShowBookmarksOnly(b)
  \/ \E t \in SearchTerms : SetSearchTerm(t)

Spec == Init /\ [][Next]_vars

\* ------------------------------------------------------------- claims

\* C1: the bookmark collection, and the collection the mount effect hands to
\* setBookmarks, never hold two records with the same (surahNumber,
\* ayahNumber).
C1_UniqueBookmarks == Unique(bookmarks) /\ Unique(queued.value)

\* A toggle has just added a second record to the collection.
C1_Witness ==
  /\ lastOp.op = "toggle"
  /\ Len(bookmarks) >= 2
  /\ HasKey(bookmarks, lastOp.surah, lastOp.id)

\* C2 (as claimed): when the item read by the mount effect is absent or is
\* not valid JSON, the effect completes and the collection is empty.
C2_LoadNeverFails ==
  (lastOp.op = "mountLoad" /\ (~storage.present \/ ~Parse(storage.text).ok))
    => (pc = "loaded" /\ ~queued.set /\ bookmarks = <<>>)

\* C3 (as claimed): two toggles in a row of one key leave the collection as
\* it was before them, records and order.
C3_TogglePairRestores == tog.n = 2 => bookmarks = tog.base

\* C3 (amended): two toggles in a row of a key that was not in the collection
\* leave it as it was; of a key that was in it, they leave the other records
\* in their order followed by a record for the key rebuilt from the selected
\* surah, the ayah and the current language.
C3_TogglePairMovesToEnd ==
  tog.n = 2 =>
    IF HasKey(tog.base, tog.surah, tog.ayah)
      THEN LET ayah == CHOOSE a \in {ayahs[i] : i \in DOMAIN ayahs} :
                         a.numberInSurah = tog.ayah
           IN  bookmarks = Append(Remove(tog.base, tog.surah, tog.ayah),
                                  NewBookmark(selectedSurah, ayah, lang))
      ELSE bookmarks = tog.base

\* Two toggles of a key that was in the collection, and not last in it.
C3_Witness ==
  /\ tog.n = 2
  /\ HasKey(tog.base, tog.surah, tog.ayah)
  /\ ~SameKey(tog.base[Len(tog.base)], tog.surah, tog.ayah)
  /\ bookmarks # tog.base

\* C4: once a bookmark has been added or removed, whenever a step is complete
\* the stored item is the serialisation of the collection, and parsing it
\* gives the collection back, records and order.
C4_WriteThrough ==
  mutated =>
    /\ storage = Item(Stringify(bookmarks))
    /\ Parse(storage.text) = [ok |-> TRUE, value |-> bookmarks]

\* A delete has just left a non-empty collection, which the item holds.
C4_Witness ==
  /\ lastOp.op = "delete"
  /\ bookmarks # <<>>
  /\ Parse(storage.text).value = bookmarks

\* C5: every successful loadSurah response, whatever its place in the order
\* of issue, sets the selected surah and the items to its own.
C5_LastResponseWins ==
  lastOp.op = "loadOk" =>
    /\ selectedSurah.number = lastOp.surah
    /\ selectedSurah \in {Catalog[s] : s \in DOMAIN Catalog}
    /\ ayahs = FetchAyahs(selectedSurah)

\* Two requests were outstanding together and both succeeded; the one issued
\* first arrived last, replacing the items of another surah.
C5_Witness ==
  /\ lastOp.op = "loadOk"
  /\ lastOp.id = 1
  /\ issued = 2
  /\ pending = {}
  /\ prevLoaded # 0
  /\ prevLoaded # lastOp.surah
  /\ selectedSurah.number = lastOp.surah

\* C6 (as claimed): after back, showBookmarksOnly has the value it had just
\* before the Detail view was entered.
C6_BackRestoresFlag == lastOp.op = "back" => showBookmarksOnly = flagBefore

\* C6 (amended): back does not touch showBookmarksOnly, which the successful
\* load has set to false: in the Detail view and after back the flag is false.
C6_BackLeavesFlagOff ==
  (selectedSurah # NoSurah \/ lastOp.op = "back") => ~showBookmarksOnly

\* Back from a surah that was opened from the bookmarks list.
C6_Witness ==
  /\ lastOp.op = "back"
  /\ flagBefore
  /\ ~showBookmarksOnly

C8_ItemsOfSelected ==
  selectedSurah # NoSurah => ayahs = FetchAyahs(selectedSurah)

\* A surah is selected whose response replaced the items of another surah.
C8_Witness ==
  /\ selectedSurah # NoSurah
  /\ prevLoaded # 0
  /\ prevLoaded # selectedSurah.number
  /\ ayahs = FetchAyahs(selectedSurah)

NavigationOps ==
  {"catalogOk", "catalogFail", "loadStart", "goToMissing", "loadOk", "loadFail",
   "back", "setFlag", "setSearch"}

\* C9: issuing or completing a fetch, going back, changing the search text
\* and setting showBookmarksOnly leave the bookmark collection unchanged.
C9_NavigationKeepsBookmarks ==
  [][lastOp'.op \in NavigationOps => bookmarks' = bookmarks]_vars

\* A bookmark added on the second ayah of surah 2 is in the collection after
\* the items of surah 1 have been loaded.
C9_Witness ==
  /\ lastOp.op = "loadOk"
  /\ lastOp.surah = 1
  /\ mutated
  /\ HasKey(bookmarks, 2, 2)

\* C10 (as claimed): as long as no bookmark has been added or removed, a
\* non-empty collection read from the item at the mount (held by the
\* scheduled update, then by bookmarks) is what the item holds.
C10_NeverClobbered ==
  ~mutated =>
    /\ (pc \in {"loaded", "rerender"} /\ queued.set /\ queued.value # <<>>)
         => storage = Item(Stringify(queued.value))
    /\ (pc = "ready" /\ bookmarks # <<>>)
         => storage = Item(Stringify(bookmarks))

====
